---- MODULE Spec2Model ----
(***************************************************************************)
(* Model of src/main.py: an interactive driver that uploads one file to a  *)
(* per-user folder of a blob container, then answers questions by a        *)
(* server-side filtered search followed by one chat completion.            *)
(*                                                                         *)
(* Strings are sequences of symbols.  A symbol is a natural number whose   *)
(* order is the code-point order of the text it stands for: a single       *)
(* character c is 10 * ord(c); the four fixed fragments of the filter      *)
(* expression are single symbols placed where their text sorts             *)
(* (" and " and " or " right after the space, the two                      *)
(* "metadata_storage_path <op> " fragments right after "m").  No symbol    *)
(* of the alphabet is a prefix of another, so the lexicographic order of   *)
(* symbol sequences is the lexicographic order of the texts.               *)
(***************************************************************************)
EXTENDS Naturals, Sequences, FiniteSets

\* ------------------------------------------------------------------ bounds
MaxNameLen == 4
MaxKeyLen == 3
MaxRuns == 2
MaxQuestions == 2

\* ---------------------------------------------------------------- alphabet
Chr(n) == 10 * n

WS == Chr(9)
DQ == Chr(34)
Q == Chr(39)
SL == Chr(47)
UpE == Chr(69)
UpY == Chr(89)
La == Chr(97)
Lb == Chr(98)
Lc == Chr(99)
Le == Chr(101)
Lh == Chr(104)
Li == Chr(105)
Ln == Chr(110)
Lq == Chr(113)
Ls == Chr(115)
Lt == Chr(116)
Lu == Chr(117)
Lx == Chr(120)
Ly == Chr(121)
TILDE == Chr(126)

KwAnd == Chr(32) + 1
KwOr == Chr(32) + 2
KwGe == Chr(109) + 1
KwLt == Chr(109) + 2

\* ------------------------------------------------------- string primitives
\* a < b in code-point lexicographic order
StrLess(a, b) ==
    \E i \in 1..(Len(b)) :
        /\ i <= Len(a) + 1
        /\ \A j \in 1..(i - 1) : a[j] = b[j]
        /\ \/ i = Len(a) + 1
           \/ i <= Len(a) /\ a[i] < b[i]

StrGe(a, b) == ~StrLess(a, b)

StartsWith(s, pre) ==
    /\ Len(s) >= Len(pre)
    /\ SubSeq(s, 1, Len(pre)) = pre

IsSpace(c) == c = WS

\* str.strip()
Strip(s) ==
    LET keep == {i \in 1..Len(s) : ~IsSpace(s[i])}
    IN IF keep = {} THEN <<>>
       ELSE LET lo == CHOOSE i \in keep : \A j \in keep : i <= j
                hi == CHOOSE i \in keep : \A j \in keep : i >= j
            IN SubSeq(s, lo, hi)

LowerChr(c) == IF c >= Chr(65) /\ c <= Chr(90) /\ c = Chr(c \div 10)
               THEN c + Chr(32) ELSE c

\* str.lower()
Lower(s) == [i \in 1..Len(s) |-> LowerChr(s[i])]

\* str.replace(ch, '')
RemoveChr(s, ch) == SelectSeq(s, LAMBDA c : c # ch)

\* the whole path kept as the file name
basename_whole(p) == p

\* posixpath.basename: everything after the last "/"
basename(p) ==
    LET slashes == {i \in 1..Len(p) : p[i] = SL}
        i == IF slashes = {} THEN 0
             ELSE CHOOSE k \in slashes : \A j \in slashes : k >= j
    IN SubSeq(p, i + 1, Len(p))

\* ------------------------------------------------------------ configuration
STORAGE_ACCOUNT_URL == <<Lh>>
CONTAINER_NAME == <<Lc>>

\* ------------------------------------------------- search_documents: filter
user_folder_url_prefix(username) ==
    STORAGE_ACCOUNT_URL \o <<SL>> \o CONTAINER_NAME \o <<SL>> \o username \o <<SL>>

\* the sentinel taken one character too low
upper_bound_slash(username) == user_folder_url_prefix(username) \o <<SL>>

upper_bound(username) == user_folder_url_prefix(username) \o <<TILDE>>

\* the two relational bounds the filter expression is written to state
InRange(path, username) ==
    /\ StrGe(path, user_folder_url_prefix(username))
    /\ StrLess(path, upper_bound(username))

\* the filter string, by interpolation of the two bounds between quotes
filter_expression(username) ==
    <<KwGe, Q>> \o user_folder_url_prefix(username) \o <<Q, KwAnd>>
    \o <<KwLt, Q>> \o upper_bound(username) \o <<Q>>

\* ------------------------------------------- search backend (filter syntax)
\* The service reads the submitted filter string: a quote opens a string
\* literal, the next quote closes it unless doubled, and outside a literal
\* only the comparison and connective fragments may occur.
Tok(k, v) == [k |-> k, v |-> v]

RECURSIVE LexFrom(_, _, _, _, _)
LexFrom(s, i, inLit, cur, toks) ==
    IF i > Len(s)
    THEN [ok |-> ~inLit, toks |-> toks]
    ELSE IF inLit
    THEN IF s[i] = Q
         THEN IF i < Len(s) /\ s[i + 1] = Q
              THEN LexFrom(s, i + 2, TRUE, Append(cur, Q), toks)
              ELSE LexFrom(s, i + 1, FALSE, <<>>, Append(toks, Tok("lit", cur)))
         ELSE LexFrom(s, i + 1, TRUE, Append(cur, s[i]), toks)
    ELSE IF s[i] = Q THEN LexFrom(s, i + 1, TRUE, <<>>, toks)
    ELSE IF s[i] = KwGe THEN LexFrom(s, i + 1, FALSE, <<>>, Append(toks, Tok("ge", <<>>)))
    ELSE IF s[i] = KwLt THEN LexFrom(s, i + 1, FALSE, <<>>, Append(toks, Tok("lt", <<>>)))
    ELSE IF s[i] = KwAnd THEN LexFrom(s, i + 1, FALSE, <<>>, Append(toks, Tok("and", <<>>)))
    ELSE IF s[i] = KwOr THEN LexFrom(s, i + 1, FALSE, <<>>, Append(toks, Tok("or", <<>>)))
    ELSE IF IsSpace(s[i]) THEN LexFrom(s, i + 1, FALSE, <<>>, toks)
    ELSE [ok |-> FALSE, toks |-> toks]

Lex(s) == LexFrom(s, 1, FALSE, <<>>, <<>>)

\* comparison (connective comparison)*, a comparison being <op> <literal>
WellFormed(toks) ==
    /\ Len(toks) % 3 = 2
    /\ \A i \in 1..Len(toks) :
         /\ i % 3 = 1 => toks[i].k \in {"ge", "lt"}
         /\ i % 3 = 2 => toks[i].k = "lit"
         /\ i % 3 = 0 => toks[i].k \in {"and", "or"}

FilterValid(filter) ==
    LET lx == Lex(filter) IN lx.ok /\ WellFormed(lx.toks)

CmpHolds(toks, k, path) ==
    IF toks[3 * k - 2].k = "ge"
    THEN StrGe(path, toks[3 * k - 1].v)
    ELSE StrLess(path, toks[3 * k - 1].v)

\* "and" binds tighter than "or": a disjunction of maximal "and" runs
EvalTokens(toks, path) ==
    LET n == (Len(toks) + 1) \div 3
    IN \E a \in 1..n : \E b \in a..n :
         /\ a = 1 \/ toks[3 * (a - 1)].k = "or"
         /\ b = n \/ toks[3 * b].k = "or"
         /\ \A k \in a..(b - 1) : toks[3 * k].k = "and"
         /\ \A k \in a..b : CmpHolds(toks, k, path)

\* a valid filter, evaluated on one document's metadata_storage_path
FilterMatches(filter, path) == EvalTokens(Lex(filter).toks, path)

\* the documents of the index the filter admits
Candidates(idx, filter) == {d \in idx : FilterMatches(filter, d.path)}

\* every ordering of at most n of the candidates, as the service may rank them
Rankings(cands, n) ==
    LET m == IF Cardinality(cands) < n THEN Cardinality(cands) ELSE n
    IN UNION {{h \in [1..k -> cands] : \A i, j \in 1..k : h[i] = h[j] => i = j}
              : k \in 0..m}

\* ------------------------------------------------------------- blob storage
BlobPath(key) == STORAGE_ACCOUNT_URL \o <<SL>> \o CONTAINER_NAME \o <<SL>> \o key

\* a write that leaves the earlier object in place
PutBlobKeep(st, key, data) == st \cup {[key |-> key, data |-> data]}

\* upload_blob(data, overwrite=True)
PutBlob(st, key, data) ==
    {b \in st : b.key # key} \cup {[key |-> key, data |-> data]}

\* the indexer, run by hand: one document per blob of the container
IndexOf(st) == {[path |-> BlobPath(b.key), content |-> b.data] : b \in st}

\* ------------------------------------------------------------- upload_file
UploadOutcomes == {"ok", "client_error", "open_error", "put_error"}

blob_name(username, local_file_path) ==
    username \o <<SL>> \o basename(local_file_path)

\* the try block: clients, blob name, open(), upload_blob()
upload_file_try(username, local_file_path, st, outcome, data) ==
    LET key == blob_name(username, local_file_path)
    IN IF outcome = "client_error"
       THEN [exc |-> TRUE, store |-> st, puts |-> 0, wrote |-> FALSE, key |-> <<>>]
       ELSE IF outcome = "open_error"
       THEN [exc |-> TRUE, store |-> st, puts |-> 0, wrote |-> FALSE, key |-> key]
       ELSE IF outcome = "put_error"
       THEN [exc |-> TRUE, store |-> st, puts |-> 1, wrote |-> FALSE, key |-> key]
       ELSE [exc |-> FALSE, store |-> PutBlob(st, key, data), puts |-> 1,
             wrote |-> TRUE, key |-> key]

\* True returned whatever the try block did
upload_file_always_true(username, local_file_path, st, outcome, data) ==
    LET body == upload_file_try(username, local_file_path, st, outcome, data)
    IN [exc |-> FALSE, ret |-> TRUE, store |-> body.store,
        puts |-> body.puts, wrote |-> body.wrote, key |-> body.key]

upload_file(username, local_file_path, st, outcome, data) ==
    LET body == upload_file_try(username, local_file_path, st, outcome, data)
    IN [exc |-> FALSE, ret |-> ~body.exc, store |-> body.store,
        puts |-> body.puts, wrote |-> body.wrote, key |-> body.key]

\* -------------------------------------------------------- search_documents
top_k_default == 3

SearchOutcomes == {"ok", "client_error", "request_error", "iter_error"}

ToDocument(result) == [content |-> result.content, source |-> result.path]

\* the try block: client, filter, request, loop over the results; a filter
\* the service cannot read fails the request, and a failure while iterating
\* comes after the hits were appended
search_documents_try(username, query, top_k, idx, outcome, hits) ==
    IF outcome = "client_error"
    THEN [exc |-> TRUE, docs |-> <<>>, reqs |-> 0]
    ELSE IF outcome = "request_error" \/ ~FilterValid(filter_expression(username))
    THEN [exc |-> TRUE, docs |-> <<>>, reqs |-> 1]
    ELSE IF outcome = "iter_error"
    THEN [exc |-> TRUE,
          docs |-> [i \in 1..Len(hits) |-> ToDocument(hits[i])],
          reqs |-> 1]
    ELSE [exc |-> FALSE,
          docs |-> [i \in 1..Len(hits) |-> ToDocument(hits[i])],
          reqs |-> 1]

\* the handler returning the documents collected before the failure
search_documents_keep_partial(username, query, top_k, idx, outcome, hits) ==
    LET body == search_documents_try(username, query, top_k, idx, outcome, hits)
    IN [exc |-> FALSE, ret |-> body.docs, reqs |-> body.reqs, failed |-> body.exc,
        partial |-> IF body.exc THEN Len(body.docs) ELSE 0]

\* the handler letting the failure through
search_documents_reraise(username, query, top_k, idx, outcome, hits) ==
    LET body == search_documents_try(username, query, top_k, idx, outcome, hits)
    IN [exc |-> body.exc, ret |-> body.docs, reqs |-> body.reqs, failed |-> body.exc,
        partial |-> 0]

search_documents(username, query, top_k, idx, outcome, hits) ==
    LET body == search_documents_try(username, query, top_k, idx, outcome, hits)
    IN IF body.exc
       THEN [exc |-> FALSE, ret |-> <<>>, reqs |-> body.reqs, failed |-> TRUE,
             partial |-> Len(body.docs)]
       ELSE [exc |-> FALSE, ret |-> body.docs, reqs |-> body.reqs, failed |-> FALSE,
             partial |-> 0]

\* what the service may hand back for a valid filter
SearchHits(username, top_k, idx) ==
    IF FilterValid(filter_expression(username))
    THEN Rankings(Candidates(idx, filter_expression(username)), top_k)
    ELSE {<<>>}

\* ------------------------------------------------------ generate_rag_answer
Fallback == "No relevant documents found. (Did the Indexer run?)"
ErrorAnswer == "Error generating answer."
ModelTexts == {"model text"}

GenOutcomes == {"ok", "client_error", "request_error", "no_choice"}

\* the empty-context return placed after the request
generate_rag_answer_late_guard(user_question, context_docs, outcome, text) ==
    IF outcome = "client_error"
    THEN [exc |-> TRUE, ret |-> "", chat |-> 0]
    ELSE IF outcome \in {"request_error", "no_choice"}
    THEN [exc |-> TRUE, ret |-> "", chat |-> 1]
    ELSE IF context_docs = <<>>
    THEN [exc |-> FALSE, ret |-> Fallback, chat |-> 1]
    ELSE [exc |-> FALSE, ret |-> text, chat |-> 1]

\* the try block: empty-context return, prompt, client, one create() call
generate_rag_answer_try(user_question, context_docs, outcome, text) ==
    IF context_docs = <<>>
    THEN [exc |-> FALSE, ret |-> Fallback, chat |-> 0]
    ELSE IF outcome = "client_error"
    THEN [exc |-> TRUE, ret |-> "", chat |-> 0]
    ELSE IF outcome \in {"request_error", "no_choice"}
    THEN [exc |-> TRUE, ret |-> "", chat |-> 1]
    ELSE [exc |-> FALSE, ret |-> text, chat |-> 1]

generate_rag_answer(user_question, context_docs, outcome, text) ==
    LET body == generate_rag_answer_try(user_question, context_docs, outcome, text)
    IN IF body.exc
       THEN [exc |-> FALSE, ret |-> ErrorAnswer, chat |-> body.chat, failed |-> TRUE]
       ELSE [exc |-> FALSE, ret |-> body.ret, chat |-> body.chat, failed |-> FALSE]

\* ------------------------------------------------------------- environment
\* local files: directory part (empty or ending in "/") and file name
LocalFiles == {[dir |-> <<>>, name |-> <<Ln>>],
               [dir |-> <<Lb, SL>>, name |-> <<Ln>>]}
LocalDirs == {<<Lb, SL>>}
Contents == {1, 2}

FilePathOf(f) == f.dir \o f.name
IsFile(p) == \E f \in LocalFiles : FilePathOf(f) = p
\* os.path.exists
Exists(p) == IsFile(p) \/ p \in LocalDirs

\* what the operator may type at each prompt
UsernameInputs == {<<WS>>, <<WS, La, WS>>, <<La, SL, Lb>>, <<Q, KwOr, KwGe, Q>>}
ChoiceInputs == {<<Ly>>, <<WS, UpY, UpE, Ls>>, <<Ln>>, <<>>}
PathInputs == {<<Ln>>, <<DQ, Lb, SL, Ln, DQ>>, <<Lb, SL>>, <<Lx>>}
QuestionInputs == {<<WS, UpE, Lx, Li, Lt>>, <<Lq, Lu, Li, Lt>>, <<WS>>, <<Lq>>,
                   <<Le, Lx, Li, Lt, WS, Lq>>}

ExitWords == {<<Le, Lx, Li, Lt>>, <<Lq, Lu, Li, Lt>>}
YesWords == {<<Ly, Le, Ls>>, <<Ly>>}

\* -------------------------------------------------------------------- state
VARIABLES
    pc,                \* the prompt main() is blocked on, or "done"
    current_username,
    store,             \* the blobs of the container
    index,             \* the documents of the search index
    docs,              \* what the last search_documents call returned
    answer,            \* the last answer printed
    cnt,               \* calls made in this run, by kind
    last,              \* what the last step did
    written,           \* history: per key, who uploaded it last and what
    runs               \* how many times the program was started

vars == <<pc, current_username, store, index, docs, answer, cnt, last,
          written, runs>>

ZeroCnt == [userPrompts |-> 0, uploadCalls |-> 0, searchCalls |-> 0,
            inputs |-> 0]

NoStep == [ev |-> "start", input |-> <<>>, steps |-> <<>>,
           searchFailed |-> FALSE, genFailed |-> FALSE,
           puts |-> 0, reqs |-> 0, chat |-> 0, partial |-> 0,
           upload |-> "none", wrote |-> FALSE, key |-> <<>>,
           dir |-> <<>>, file |-> <<>>, data |-> 0]

Init ==
    /\ pc = "username"
    /\ current_username = <<>>
    /\ store = {}
    /\ index = {}
    /\ docs = <<>>
    /\ answer = ""
    /\ cnt = ZeroCnt
    /\ last = NoStep
    /\ written = <<>>
    /\ runs = 1

\* ---------------------------------------------------------------- main()
\* lines 177-178
EnterUsername(raw) ==
    /\ pc = "username"
    /\ current_username' = Strip(raw)
    /\ pc' = IF Strip(raw) = <<>> THEN "done" ELSE "upload_choice"
    /\ cnt' = [cnt EXCEPT !.userPrompts = @ + 1]
    /\ last' = [NoStep EXCEPT !.ev = "username"]
    /\ UNCHANGED <<store, index, docs, answer, written, runs>>

\* lines 182-184
EnterUploadChoice(raw) ==
    /\ pc = "upload_choice"
    /\ pc' = IF Strip(Lower(raw)) \in YesWords THEN "file_path" ELSE "question"
    /\ last' = [NoStep EXCEPT !.ev = "choice"]
    /\ UNCHANGED <<current_username, store, index, docs, answer, cnt, written, runs>>

CleanPath(raw) == RemoveChr(RemoveChr(Strip(raw), DQ), Q)

\* the history kept beside the container: the last successful upload per key
Record(w, user, key, data) ==
    [k \in (DOMAIN w) \cup {key} |->
        IF k = key
        THEN [user |-> user, data |-> data,
              n |-> IF key \in DOMAIN w THEN w[key].n + 1 ELSE 1]
        ELSE w[k]]

\* lines 185-189: the path names something that exists, upload_file is called
UploadStep(raw) ==
    /\ pc = "file_path"
    /\ Exists(CleanPath(raw))
    /\ \E outcome \in UploadOutcomes, data \in Contents :
         LET file_path == CleanPath(raw)
             r == upload_file(current_username, file_path, store, outcome, data)
             f == IF IsFile(file_path)
                  THEN CHOOSE e \in LocalFiles : FilePathOf(e) = file_path
                  ELSE [dir |-> file_path, name |-> <<>>]
         IN /\ IsFile(file_path) \/ outcome \in {"client_error", "open_error"}
            /\ outcome = "ok" \/ data = 1
            /\ store' = r.store
            /\ pc' = IF r.exc THEN "crashed" ELSE "question"
            /\ cnt' = [cnt EXCEPT !.uploadCalls = @ + 1]
            /\ written' = IF r.ret
                          THEN Record(written, current_username, r.key, data)
                          ELSE written
            /\ last' = [NoStep EXCEPT !.ev = "upload",
                                      !.steps = <<"upload">>,
                                      !.puts = r.puts,
                                      !.upload = IF r.exc THEN "raised"
                                                 ELSE IF r.ret THEN "True"
                                                 ELSE "False",
                                      !.wrote = r.wrote,
                                      !.key = r.key,
                                      !.dir = f.dir, !.file = f.name,
                                      !.data = IF r.wrote THEN data ELSE 0]
    /\ UNCHANGED <<current_username, index, docs, answer, runs>>

\* lines 185-191: nothing exists at the path
FileNotFound(raw) ==
    /\ pc = "file_path"
    /\ ~Exists(CleanPath(raw))
    /\ pc' = "question"
    /\ last' = [NoStep EXCEPT !.ev = "nofile"]
    /\ UNCHANGED <<current_username, store, index, docs, answer, cnt, written, runs>>

IsExit(raw) == Lower(Strip(raw)) \in ExitWords
IsBlank(raw) == Strip(raw) = <<>>

\* the exit keyword handled as a blank line
ExitLoopContinue(raw) ==
    /\ pc = "question"
    /\ IsExit(raw)
    /\ cnt.inputs < MaxQuestions
    /\ pc' = "question"
    /\ cnt' = [cnt EXCEPT !.inputs = @ + 1]
    /\ last' = [NoStep EXCEPT !.ev = "exit", !.input = raw]
    /\ UNCHANGED <<current_username, store, index, docs, answer, written, runs>>

\* lines 196-199
ExitLoop(raw) ==
    /\ pc = "question"
    /\ IsExit(raw)
    /\ pc' = "done"
    /\ cnt' = [cnt EXCEPT !.inputs = @ + 1]
    /\ last' = [NoStep EXCEPT !.ev = "exit", !.input = raw]
    /\ UNCHANGED <<current_username, store, index, docs, answer, written, runs>>

\* lines 196-201
BlankQuestion(raw) ==
    /\ pc = "question"
    /\ cnt.inputs < MaxQuestions
    /\ ~IsExit(raw)
    /\ IsBlank(raw)
    /\ pc' = "question"
    /\ cnt' = [cnt EXCEPT !.inputs = @ + 1]
    /\ last' = [NoStep EXCEPT !.ev = "blank", !.input = raw]
    /\ UNCHANGED <<current_username, store, index, docs, answer, written, runs>>

\* lines 196-209: search, generate, print
AskQuestion(raw) ==
    /\ pc = "question"
    /\ cnt.inputs < MaxQuestions
    /\ ~IsExit(raw)
    /\ ~IsBlank(raw)
    /\ \E hits \in SearchHits(current_username, top_k_default, index) :
       \E so \in SearchOutcomes :
         /\ so \in {"ok", "iter_error"} \/ hits = <<>>
         /\ \E sr \in {search_documents(current_username, Strip(raw), top_k_default,
                                       index, so, hits)} :
            \E go \in GenOutcomes, text \in ModelTexts :
              /\ go = "ok" \/ text = "model text"
              /\ \E gr \in {generate_rag_answer(Strip(raw), sr.ret, go, text)} :
                   /\ docs' = sr.ret
                   /\ answer' = IF sr.exc \/ gr.exc THEN answer ELSE gr.ret
                   /\ pc' = IF sr.exc \/ gr.exc THEN "crashed" ELSE "question"
                   /\ cnt' = [cnt EXCEPT !.inputs = @ + 1, !.searchCalls = @ + 1]
                   /\ last' = [NoStep EXCEPT !.ev = "asked", !.input = raw,
                                 !.steps = IF sr.exc THEN <<"search">>
                                           ELSE IF gr.exc THEN <<"search", "generate">>
                                           ELSE <<"search", "generate", "print">>,
                                 !.searchFailed = sr.failed,
                                 !.genFailed = (~sr.exc /\ gr.failed),
                                 !.reqs = sr.reqs,
                                 !.partial = sr.partial,
                                 !.chat = IF sr.exc THEN 0 ELSE gr.chat]
    /\ UNCHANGED <<current_username, store, index, written, runs>>

\* lines 212-213: the program is started again; the container and the index stay
Launch ==
    /\ pc = "done"
    /\ runs < MaxRuns
    /\ runs' = runs + 1
    /\ pc' = "username"
    /\ current_username' = <<>>
    /\ docs' = <<>>
    /\ answer' = ""
    /\ cnt' = ZeroCnt
    /\ last' = NoStep
    /\ UNCHANGED <<store, index, written>>

\* line 74: the operator runs the indexer over the container
RunIndexer ==
    /\ index # IndexOf(store)
    /\ index' = IndexOf(store)
    /\ UNCHANGED <<pc, current_username, store, docs, answer, cnt, last,
                   written, runs>>

Next ==
    \/ \E raw \in UsernameInputs : EnterUsername(raw)
    \/ \E raw \in ChoiceInputs : EnterUploadChoice(raw)
    \/ \E raw \in PathInputs : UploadStep(raw)
    \/ \E raw \in PathInputs : FileNotFound(raw)
    \/ \E raw \in QuestionInputs : ExitLoop(raw)
    \/ \E raw \in QuestionInputs : BlankQuestion(raw)
    \/ \E raw \in QuestionInputs : AskQuestion(raw)
    \/ Launch
    \/ RunIndexer

Spec == Init /\ [][Next]_vars

\* ------------------------------------------- search_documents on its own
\* Every user name and every one-blob container, up to the bounds; the
\* session is at its first question prompt.
LatinE == Chr(233)
NameAlphabet == {Q, KwOr, KwGe, La}
KeyAlphabet == {SL, La, TILDE, LatinE}

Strings(alphabet, n) == UNION {[1..k -> alphabet] : k \in 1..n}

FilterInit ==
    /\ pc = "question"
    /\ current_username \in Strings(NameAlphabet, MaxNameLen)
    /\ \E key \in Strings(KeyAlphabet, MaxKeyLen) :
         store = {[key |-> key, data |-> 1]}
    /\ index = IndexOf(store)
    /\ docs = <<>>
    /\ answer = ""
    /\ cnt = [ZeroCnt EXCEPT !.userPrompts = 1]
    /\ last = [NoStep EXCEPT !.ev = "choice"]
    /\ written = <<>>
    /\ runs = 1

\* lines 89-129: one call of search_documents that the service answers
ApplySearch ==
    /\ pc = "question"
    /\ last.ev = "choice"
    /\ \E hits \in SearchHits(current_username, top_k_default, index) :
         LET sr == search_documents(current_username, <<Lq>>, top_k_default,
                                   index, "ok", hits)
         IN /\ docs' = sr.ret
            /\ last' = [NoStep EXCEPT !.ev = "searched",
                                      !.steps = <<"search">>,
                                      !.searchFailed = sr.failed,
                                      !.reqs = sr.reqs]
    /\ UNCHANGED <<pc, current_username, store, index, answer, cnt, written, runs>>

FilterNext == ApplySearch

FilterSpec == FilterInit /\ [][FilterNext]_vars

\* ================================================================== claims
AtQuestionStep == last.ev \in {"exit", "blank", "asked"}
Prefix == user_folder_url_prefix(current_username)

\* C1 (as stated): a path satisfies both bounds of the filter exactly when it
\* starts with the user's folder prefix.
C1_ExactPartition ==
    \A d \in index :
        StartsWith(d.path, Prefix) <=> InRange(d.path, current_username)

\* C1 (amended): a path satisfies both bounds exactly when it starts with the
\* prefix and what follows the prefix is empty or begins with a character
\* that sorts below "~"; a path that does not start with the prefix fails a
\* bound.
C1_PartitionBelowSentinel ==
    \A d \in index :
        InRange(d.path, current_username)
        <=> /\ StartsWith(d.path, Prefix)
            /\ \/ Len(d.path) = Len(Prefix)
               \/ d.path[Len(Prefix) + 1] < TILDE

C1_Witness ==
    /\ last.ev = "searched"
    /\ docs # <<>>
    /\ \E d \in index :
         /\ StartsWith(d.path, Prefix)
         /\ Len(d.path) > Len(Prefix)
         /\ InRange(d.path, current_username)

\* C2: every document search_documents returns has a source path that
\* begins with the searching user's folder prefix.
C2_ResultsInUserFolder ==
    \A i \in 1..Len(docs) : StartsWith(docs[i].source, Prefix)

\* C3: a successful upload leaves an object at exactly
\* username + "/" + file name, with the bytes read, and changes no other key.
C3_ObjectKey ==
    [][(last'.ev = "upload" /\ last'.wrote) =>
         LET k == current_username \o <<SL>> \o last'.file
         IN /\ last'.key = k
            /\ [key |-> k, data |-> last'.data] \in store'
            /\ {b \in store' : b.key # k} = {b \in store : b.key # k}]_vars

C3_Witness ==
    /\ last.ev = "upload"
    /\ last.wrote
    /\ last.dir # <<>>
    /\ \E b \in store : b.key = current_username \o <<SL>> \o last.file

\* the container holds, for each key ever written, one object with the bytes
\* of the last successful upload, and nothing else
OneObjectPerKey(st, w) ==
    /\ \A b \in st : b.key \in DOMAIN w
    /\ \A k \in DOMAIN w :
         {b \in st : b.key = k} = {[key |-> k, data |-> w[k].data]}

\* C4: after any successful uploads the container holds exactly one object
\* per key written, with the latest content; uploading again what the key
\* already holds leaves the container as it was.
C4_OverwriteIdempotent ==
    [][/\ OneObjectPerKey(store', written')
       /\ (/\ last'.ev = "upload"
           /\ last'.wrote
           /\ [key |-> last'.key, data |-> last'.data] \in store)
          => store' = store]_vars

C4_Witness ==
    \E k \in DOMAIN written :
        /\ written[k].n >= 2
        /\ last.ev = "upload"
        /\ last.key = k
        /\ Cardinality({b \in store : b.key = k}) = 1

\* C5: with no context documents the answer is the fixed fallback string and
\* no chat-completion request is made.
C5_EmptyContextFallback ==
    (last.ev = "asked" /\ docs = <<>>) =>
        /\ answer = Fallback
        /\ last.chat = 0
        /\ ~last.genFailed

C5_Witness ==
    /\ last.ev = "asked"
    /\ docs = <<>>
    /\ ~last.searchFailed
    /\ answer = Fallback

\* C6: search_documents returns to its caller; when it fails it returns the
\* empty sequence, whatever it had collected, after at most one request.
C6_SearchNeverRaises ==
    last.ev = "asked" =>
        /\ Len(last.steps) >= 2
        /\ last.reqs <= 1
        /\ last.searchFailed => docs = <<>>

C6_Witness ==
    /\ last.ev = "asked"
    /\ last.searchFailed
    /\ last.partial > 0
    /\ docs = <<>>

\* C7: upload_file returns True exactly when the blob was written and False
\* otherwise; generate_rag_answer with context returns the fixed error
\* string when it fails; neither raises, and each external call is made at
\* most once.
C7_UniformFailurePolicy ==
    /\ pc # "crashed"
    /\ last.ev = "upload" =>
         /\ last.upload \in {"True", "False"}
         /\ last.upload = "True" <=> last.wrote
         /\ last.puts <= 1
    /\ (last.ev = "asked" /\ docs # <<>>) =>
         /\ last.chat <= 1
         /\ last.genFailed => answer = ErrorAnswer

C7_Witness ==
    /\ last.ev = "asked"
    /\ docs # <<>>
    /\ last.genFailed
    /\ last.chat = 1
    /\ answer = ErrorAnswer
    /\ cnt.uploadCalls = 1

DriverOrder ==
    /\ cnt.userPrompts <= 1
    /\ pc # "username" => cnt.userPrompts = 1
    /\ cnt.uploadCalls <= 1
    /\ last.ev = "upload" => cnt.searchCalls = 0
    /\ AtQuestionStep => (pc = "done" <=> IsExit(last.input))

\* C8 (as stated): one user-name prompt, at most one upload and before any
\* search, and every input at the question prompt that is not an exit
\* keyword runs one search, then one generation, then prints; the loop ends
\* exactly on an exit keyword.
C8_EveryNonExitInputSearches ==
    /\ DriverOrder
    /\ (AtQuestionStep /\ ~IsExit(last.input)) =>
         last.steps = <<"search", "generate", "print">>

\* C8 (amended): as stated, for every input that is neither an exit keyword
\* nor blank once stripped; a blank input runs nothing and prompts again.
C8_EveryQuestionSearches ==
    /\ DriverOrder
    /\ (AtQuestionStep /\ ~IsExit(last.input) /\ ~IsBlank(last.input)) =>
         last.steps = <<"search", "generate", "print">>
    /\ (AtQuestionStep /\ ~IsExit(last.input) /\ IsBlank(last.input)) =>
         /\ last.steps = <<>>
         /\ pc = "question"

C8_Witness ==
    /\ last.ev = "asked"
    /\ last.steps = <<"search", "generate", "print">>
    /\ cnt.uploadCalls = 1
    /\ cnt.inputs = 2
    /\ cnt.searchCalls = 1

\* C9: a search never returns a document that a different user uploaded.
C9_CrossUserIsolation ==
    \A i \in 1..Len(docs) : \A k \in DOMAIN written :
        BlobPath(k) = docs[i].source => written[k].user = current_username

\* C10: when the search fails the printed answer is the fallback string, no
\* chat-completion request is made, and the loop prompts again.
C10_FailedSearchLooksEmpty ==
    (last.ev = "asked" /\ last.searchFailed) =>
        /\ answer = Fallback
        /\ last.chat = 0
        /\ pc = "question"

C10_Witness ==
    /\ last.ev = "asked"
    /\ last.searchFailed
    /\ last.reqs = 1
    /\ last.partial = 0
    /\ answer = Fallback
    /\ pc = "question"

====
